---------------------------- MODULE Spec2Model ----------------------------
(***************************************************************************)
(* A model of the Mython lexer (src/mython/lexer.cpp, namespace parse) and *)
(* of the AST executor and runtime (src/mython/lexer.cpp, namespace ast;   *)
(* src/mython/runtime.cpp).                                                *)
(***************************************************************************)
EXTENDS Integers, Sequences, FiniteSets, TLC

(***************************************************************************)
(* Bounds of the model.                                                    *)
(***************************************************************************)
\* longest input text given to the lexer
MaxLen == 4
\* longest string a scanning loop that no longer advances may accumulate
MaxStr == 5

(***************************************************************************)
(* Characters.  A character is a one-element name; the input alphabet      *)
(* holds one representative of every class the lexer distinguishes.        *)
(***************************************************************************)
SP == "SP"
NL == "NL"
DQ == "DQ"
SQ == "SQ"
BS == "BS"
\* the char that input.get() yields at end of stream: (char)EOF
EOFc == "EOF"
\* an istreambuf_iterator that has not read its character yet
NoChar == "NoChar"

Chars == {"1", "n", SP, NL, "#", "=", "?", DQ, BS}

Digits == {"0", "1", "2", "3", "4", "5", "6", "7", "8", "9"}
Letters == {"n", "t", "r", "_"}

IsDigit(c) == c \in Digits
IsIdStart(c) == c \in Letters
IsIdChar(c) == c \in Letters \/ c \in Digits
IsQuote(c) == c \in {SQ, DQ}
IsSingle(c) == c \in {"-", "+", "*", "/", ":", "(", ")", ",", "."}
IsCmpStart(c) == c \in {"=", "!", "<", ">"}

\* all texts of at most MaxLen characters
Texts == UNION {[1..n -> Chars] : n \in 0..MaxLen}

(***************************************************************************)
(* Tokens.                                                                 *)
(***************************************************************************)
Tok(t) == [type |-> t, num |-> 0, str |-> <<>>]
NumberTok(v) == [type |-> "Number", num |-> v, str |-> <<>>]
IdTok(s) == [type |-> "Id", num |-> 0, str |-> s]
StringTok(s) == [type |-> "String", num |-> 0, str |-> s]
CharTok(c) == [type |-> "Char", num |-> 0, str |-> <<c>>]

Back(toks) == toks[Len(toks)]
BackIs(toks, t) == toks /= <<>> /\ Back(toks).type = t

RECURSIVE Repeat(_, _)
Repeat(x, n) == IF n <= 0 THEN <<>> ELSE <<x>> \o Repeat(x, n - 1)

RECURSIVE Count(_, _)
Count(toks, t) ==
    IF toks = <<>> THEN 0
    ELSE (IF toks[1].type = t THEN 1 ELSE 0) + Count(Tail(toks), t)

VARIABLES
    text,        \* the characters behind the std::istream
    cachedIt,    \* whether the library's istreambuf_iterator caches its char
    input,       \* the stream: read position, eofbit, failbit
    tokens_,     \* Lexer::tokens_
    token_id_,   \* Lexer::token_id_
    indent,      \* local of the constructor
    cur_indent,  \* local of the constructor
    pc,          \* where the constructor is
    s,           \* the string a Load* function accumulates
    quote,       \* LoadString's parameter c
    it,          \* the char an istreambuf_iterator holds (cached builds)
    err,         \* the message of the LexerError thrown, or ""
    skipped,     \* the constructor dropped a char that begins no lexeme
    op,          \* the last cursor call: "none", "next" or "current"
    ret          \* what the last cursor call returned

lexvars == <<text, cachedIt, input, tokens_, token_id_, indent, cur_indent,
             pc, s, quote, it, err, skipped, op, ret>>

VARIABLES
    classes,     \* the runtime::Class objects of the program, by name
    closure,     \* the Closure the root statements run against
    heap,        \* the ClassInstance objects allocated so far
    nullDeref,   \* what calling through a null ClassInstance* does here
    steps,       \* how many root statements have run
    last,        \* the root statement run last and what running it did
    cmp          \* two operands and what the comparisons of them yielded

execvars == <<classes, closure, heap, nullDeref, steps, last, cmp>>

vars == <<lexvars, execvars>>

(***************************************************************************)
(* std::istream over `text`.                                               *)
(***************************************************************************)
\* operator!: fail()
Failed(st) == st.fail

\* istream::get(): the sentry sets failbit on a stream that is not good()
Get(st) ==
    IF st.eof \/ st.fail THEN [c |-> EOFc, st |-> [st EXCEPT !.fail = TRUE]]
    ELSE IF st.pos < Len(text)
         THEN [c |-> text[st.pos + 1], st |-> [st EXCEPT !.pos = st.pos + 1]]
         ELSE [c |-> EOFc, st |-> [st EXCEPT !.eof = TRUE, !.fail = TRUE]]

\* istream::peek(): at the end of the stream it sets eofbit only
Peek(st) ==
    IF st.eof \/ st.fail THEN [c |-> EOFc, st |-> [st EXCEPT !.fail = TRUE]]
    ELSE IF st.pos < Len(text)
         THEN [c |-> text[st.pos + 1], st |-> st]
         ELSE [c |-> EOFc, st |-> [st EXCEPT !.eof = TRUE]]

\* istream::unget(): clears eofbit, then steps back when the stream is good
Unget(st) ==
    IF st.fail THEN [st EXCEPT !.eof = FALSE]
    ELSE [st EXCEPT !.eof = FALSE, !.pos = IF st.pos > 0 THEN st.pos - 1 ELSE 0]

\* streambuf::sgetc(): the next char, no stream flag is touched
Sgetc(st) == IF st.pos < Len(text) THEN text[st.pos + 1] ELSE EOFc

\* streambuf::sbumpc(): consume one char
Sbumpc(st) == IF st.pos < Len(text) THEN [st EXCEPT !.pos = st.pos + 1] ELSE st

(***************************************************************************)
(* Lexer::Lexer, lines 78-172.                                             *)
(***************************************************************************)
\* lines 92-102: the first char of a line that is neither ' ' nor '\n'
DedentBlock(toks, c, ind, cur) ==
    IF toks /= <<>> /\ c /= SP /\ c /= NL /\ BackIs(toks, "Newline")
    THEN LET delta == cur - ind
             n == IF delta >= 2 THEN delta \div 2 ELSE 0
         IN  [toks |-> toks \o Repeat(Tok("Dedent"), n),
              indent |-> 0,
              cur_indent |-> cur - 2 * n]
    ELSE [toks |-> toks, indent |-> ind, cur_indent |-> cur]

\* lines 113-121: a space when a token has been produced
SpaceBranch(toks, ind, cur) ==
    IF BackIs(toks, "Newline")
    THEN IF ind + 1 = cur + 2
         THEN [toks |-> Append(toks, Tok("Indent")),
               indent |-> 0, cur_indent |-> ind + 1]
         ELSE [toks |-> toks, indent |-> ind + 1, cur_indent |-> cur]
    ELSE [toks |-> toks, indent |-> ind, cur_indent |-> cur]

\* lines 127-148: '=', '!', '<', '>' followed by '=' or not
CmpTok(c) ==
    CASE c = "!" -> Tok("NotEq")
      [] c = "=" -> Tok("Eq")
      [] c = "<" -> Tok("LessOrEq")
      [] c = ">" -> Tok("GreaterOrEq")

\* NewlineBranch without the test of the last token
NewlineBranchNoCollapse(toks) ==
    IF toks /= <<>> THEN Append(toks, Tok("Newline")) ELSE toks

\* lines 149-153: '\n'
NewlineBranch(toks) ==
    IF toks /= <<>> /\ ~BackIs(toks, "Newline")
    THEN Append(toks, Tok("Newline"))
    ELSE toks

\* lines 167-171: after the loop
Trailing(toks) ==
    (IF toks /= <<>> /\ ~BackIs(toks, "Newline") /\ ~BackIs(toks, "Dedent")
     THEN Append(toks, Tok("Newline"))
     ELSE toks) \o <<Tok("Eof")>>

LexInit ==
    /\ text \in Texts
    /\ cachedIt \in BOOLEAN
    /\ input = [pos |-> 0, eof |-> FALSE, fail |-> FALSE]
    /\ tokens_ = <<>>
    /\ token_id_ = 0
    /\ indent = 0
    /\ cur_indent = 0
    /\ pc = "main"
    /\ s = <<>>
    /\ quote = NoChar
    /\ it = NoChar
    /\ err = ""
    /\ skipped = FALSE
    /\ op = "none"
    /\ ret = Tok("Eof")

\* lines 86-165: one iteration of the main loop, up to the call of a Load*
\* function or the start of the comment loop
Iterate ==
    /\ pc = "main"
    /\ ~Failed(input)
    /\ UNCHANGED execvars
    /\ LET g == Get(input)
           c == g.c
           d == DedentBlock(tokens_, c, indent, cur_indent)
       IN  /\ UNCHANGED <<text, cachedIt, token_id_, err, op, ret>>
           /\ s' = <<>>
           /\ it' = NoChar
           /\ CASE IsDigit(c) ->
                    /\ input' = Unget(g.st)
                    /\ pc' = "LoadNumber"
                    /\ tokens_' = d.toks
                    /\ indent' = d.indent
                    /\ cur_indent' = d.cur_indent
                    /\ UNCHANGED <<quote, skipped>>
                [] IsIdStart(c) ->
                    /\ input' = Unget(g.st)
                    /\ pc' = "LoadId"
                    /\ tokens_' = d.toks
                    /\ indent' = d.indent
                    /\ cur_indent' = d.cur_indent
                    /\ UNCHANGED <<quote, skipped>>
                [] IsQuote(c) ->
                    /\ input' = g.st
                    /\ pc' = "LoadString"
                    /\ quote' = c
                    /\ tokens_' = d.toks
                    /\ indent' = d.indent
                    /\ cur_indent' = d.cur_indent
                    /\ UNCHANGED skipped
                [] d.toks /= <<>> /\ c = SP ->
                    LET b == SpaceBranch(d.toks, d.indent, d.cur_indent)
                    IN  /\ input' = g.st
                        /\ tokens_' = b.toks
                        /\ indent' = b.indent
                        /\ cur_indent' = b.cur_indent
                        /\ UNCHANGED <<pc, quote, skipped>>
                [] IsSingle(c) ->
                    /\ input' = g.st
                    /\ tokens_' = Append(d.toks, CharTok(c))
                    /\ indent' = d.indent
                    /\ cur_indent' = d.cur_indent
                    /\ UNCHANGED <<pc, quote, skipped>>
                [] IsCmpStart(c) ->
                    LET p == Peek(g.st)
                    IN  /\ IF p.c = "="
                           THEN /\ input' = Get(p.st).st
                                /\ tokens_' = Append(d.toks, CmpTok(c))
                           ELSE /\ input' = p.st
                                /\ tokens_' = Append(d.toks, CharTok(c))
                        /\ indent' = d.indent
                        /\ cur_indent' = d.cur_indent
                        /\ UNCHANGED <<pc, quote, skipped>>
                [] c = NL ->
                    /\ input' = g.st
                    /\ tokens_' = NewlineBranch(d.toks)
                    /\ indent' = d.indent
                    /\ cur_indent' = d.cur_indent
                    /\ UNCHANGED <<pc, quote, skipped>>
                [] c = "#" ->
                    /\ input' = g.st
                    /\ pc' = "Comment"
                    /\ tokens_' = d.toks
                    /\ indent' = d.indent
                    /\ cur_indent' = d.cur_indent
                    /\ UNCHANGED <<quote, skipped>>
                [] OTHER ->
                    \* no branch takes the char: it is dropped
                    /\ input' = g.st
                    /\ tokens_' = d.toks
                    /\ indent' = d.indent
                    /\ cur_indent' = d.cur_indent
                    /\ skipped' = (skipped \/ c \notin {EOFc, SP})
                    /\ UNCHANGED <<pc, quote>>

\* lines 154-164: one iteration of the comment loop
CommentStep ==
    /\ pc = "Comment"
    /\ IF Failed(input)
       THEN /\ pc' = "main"
            /\ UNCHANGED input
       ELSE LET p == Peek(input)
            IN  IF p.c = NL
                THEN /\ pc' = "main"
                     /\ input' = p.st
                ELSE /\ pc' = "Comment"
                     /\ input' = Get(p.st).st
    /\ UNCHANGED <<text, cachedIt, tokens_, token_id_, indent, cur_indent,
                   s, quote, it, err, skipped, op, ret>>
    /\ UNCHANGED execvars

\* lines 87-89 and 167-171: the stream has failed, the loop is left
Finish ==
    /\ pc = "main"
    /\ Failed(input)
    /\ tokens_' = Trailing(tokens_)
    /\ pc' = "done"
    /\ UNCHANGED <<text, cachedIt, input, token_id_, indent, cur_indent,
                   s, quote, it, err, skipped, op, ret>>
    /\ UNCHANGED execvars

(***************************************************************************)
(* Lexer::LoadNumber, lines 185-215.                                       *)
(***************************************************************************)
\* the largest int: std::stoi throws std::out_of_range above it
INT_MAX == 2147483647

DigitVal(c) ==
    CASE c = "0" -> 0 [] c = "1" -> 1 [] c = "2" -> 2 [] c = "3" -> 3
      [] c = "4" -> 4 [] c = "5" -> 5 [] c = "6" -> 6 [] c = "7" -> 7
      [] c = "8" -> 8 [] c = "9" -> 9

\* std::stoi throwing std::out_of_range
OUT_OF_RANGE == -1

\* the digits of num from the i-th on read after the value acc: the value,
\* or OUT_OF_RANGE as soon as it does not fit an int
RECURSIVE StoIFrom(_, _, _)
StoIFrom(num, i, acc) ==
    IF i > Len(num) THEN acc
    ELSE IF acc > (INT_MAX - DigitVal(num[i])) \div 10 THEN OUT_OF_RANGE
    ELSE StoIFrom(num, i + 1, 10 * acc + DigitVal(num[i]))

\* what std::stoi makes of a string of digits
StoI(num) == StoIFrom(num, 1, 0)

\* one turn of read_digits, or the conversion once the digits are read
LoadNumberStep ==
    /\ pc = "LoadNumber"
    /\ LET p == Peek(input)
       IN  IF IsDigit(p.c)
           THEN /\ s' = Append(s, p.c)
                /\ input' = Get(p.st).st
                /\ UNCHANGED <<pc, tokens_, err>>
           ELSE /\ input' = p.st
                /\ UNCHANGED s
                /\ IF s = <<>>
                   THEN /\ pc' = "error"
                        /\ err' = "A digit is expected"
                        /\ UNCHANGED tokens_
                   ELSE IF StoI(s) = OUT_OF_RANGE
                   THEN /\ pc' = "error"
                        /\ err' = "Failed to convert to number"
                        /\ UNCHANGED tokens_
                   ELSE /\ pc' = "main"
                        /\ tokens_' = Append(tokens_, NumberTok(StoI(s)))
                        /\ UNCHANGED err
    /\ UNCHANGED <<text, cachedIt, token_id_, indent, cur_indent, quote, it,
                   skipped, op, ret>>
    /\ UNCHANGED execvars

(***************************************************************************)
(* std::istreambuf_iterator<char>, as LoadId and LoadString use it.  Both  *)
(* advance with the statement `std::next(it);`, which increments a copy   *)
(* of `it`.  The copy consumes a char of the shared stream buffer; `it`    *)
(* itself is a copy of an incremented input iterator, which the library    *)
(* need not keep dereferenceable.  A library whose iterator reads the      *)
(* buffer on each use sees the next char; one whose iterator caches the    *)
(* char it read keeps yielding the cached char.                            *)
(***************************************************************************)
\* *it, and the char `it == end` looks at
ItDeref(st, itc) == IF cachedIt /\ itc /= NoChar THEN itc ELSE Sgetc(st)

\* what `it` holds after it was dereferenced
ItHold(ch) == IF cachedIt /\ ch /= EOFc THEN ch ELSE NoChar

(***************************************************************************)
(* Lexer::LoadId, lines 217-277.                                           *)
(***************************************************************************)
\* lines 238-276: the keyword table
Keyword(w) ==
    CASE w = <<"c", "l", "a", "s", "s">> -> Tok("Class")
      [] w = <<"r", "e", "t", "u", "r", "n">> -> Tok("Return")
      [] w = <<"i", "f">> -> Tok("If")
      [] w = <<"e", "l", "s", "e">> -> Tok("Else")
      [] w = <<"d", "e", "f">> -> Tok("Def")
      [] w = <<"p", "r", "i", "n", "t">> -> Tok("Print")
      [] w = <<"o", "r">> -> Tok("Or")
      [] w = <<"N", "o", "n", "e">> -> Tok("None")
      [] w = <<"a", "n", "d">> -> Tok("And")
      [] w = <<"n", "o", "t">> -> Tok("Not")
      [] w = <<"T", "r", "u", "e">> -> Tok("True")
      [] w = <<"F", "a", "l", "s", "e">> -> Tok("False")
      [] OTHER -> IdTok(w)

\* lines 224-236: one turn of the loop; on break, lines 238-276
LoadIdStep ==
    /\ pc = "LoadId"
    /\ LET ch == ItDeref(input, it)
       IN  IF ch = EOFc \/ ~IsIdChar(ch)
           THEN /\ tokens_' = Append(tokens_, Keyword(s))
                /\ pc' = "main"
                /\ it' = NoChar
                /\ UNCHANGED <<s, input>>
           ELSE /\ Len(s) < MaxStr
                /\ s' = Append(s, ch)
                /\ input' = Sbumpc(input)
                /\ it' = ItHold(ch)
                /\ UNCHANGED <<pc, tokens_>>
    /\ UNCHANGED <<text, cachedIt, token_id_, indent, cur_indent, quote, err,
                   skipped, op, ret>>
    /\ UNCHANGED execvars

(***************************************************************************)
(* Lexer::LoadString, lines 279-339.                                       *)
(***************************************************************************)
\* lines 308-330: the char an escape sequence stands for, NoChar if none
Escape(e) ==
    CASE e = "n" -> NL
      [] e = "t" -> "TAB"
      [] e = "r" -> "CR"
      [] e = DQ -> DQ
      [] e = SQ -> SQ
      [] e = BS -> BS
      [] OTHER -> NoChar

\* lines 286-336: one turn of the loop
LoadStringStep ==
    /\ pc = "LoadString"
    /\ LET ch == ItDeref(input, it)
           st1 == Sbumpc(input)
           held == ItHold(ch)
           \* line 306: *it after the std::next(it) of line 300
           e == ItDeref(st1, held)
       IN  CASE ch = EOFc ->
                    /\ pc' = "error"
                    /\ err' = "String parsing error"
                    /\ UNCHANGED <<s, input, it, tokens_>>
             [] ch /= EOFc /\ ch = quote ->
                    /\ input' = st1
                    /\ tokens_' = Append(tokens_, StringTok(s))
                    /\ pc' = "main"
                    /\ it' = NoChar
                    /\ UNCHANGED <<s, err>>
             [] ch /= EOFc /\ ch /= quote /\ ch = BS ->
                    IF e = EOFc
                    THEN /\ pc' = "error"
                         /\ err' = "String parsing error"
                         /\ input' = st1
                         /\ UNCHANGED <<s, it, tokens_>>
                    ELSE IF Escape(e) = NoChar
                    THEN /\ pc' = "error"
                         /\ err' = "Unrecognized escape sequence"
                         /\ input' = st1
                         /\ UNCHANGED <<s, it, tokens_>>
                    ELSE /\ Len(s) < MaxStr
                         /\ s' = Append(s, Escape(e))
                         /\ input' = Sbumpc(st1)
                         /\ it' = held
                         /\ UNCHANGED <<pc, err, tokens_>>
             [] OTHER ->
                    /\ Len(s) < MaxStr
                    /\ s' = Append(s, ch)
                    /\ input' = st1
                    /\ it' = held
                    /\ UNCHANGED <<pc, err, tokens_>>
    /\ UNCHANGED <<text, cachedIt, token_id_, indent, cur_indent, quote,
                   skipped, op, ret>>
    /\ UNCHANGED execvars

(***************************************************************************)
(* Lexer::CurrentToken and Lexer::NextToken, lines 174-183.                *)
(***************************************************************************)
\* NextTokenId starting over at the end instead of staying there
NextTokenIdWrap(id, n) == IF id < n - 1 THEN id + 1 ELSE 0

\* lines 179-181
NextTokenId(id, n) == IF id < n - 1 THEN id + 1 ELSE id

NextToken ==
    /\ pc = "done"
    /\ token_id_' = NextTokenId(token_id_, Len(tokens_))
    /\ ret' = tokens_[token_id_' + 1]
    /\ op' = "next"
    /\ UNCHANGED <<text, cachedIt, input, tokens_, indent, cur_indent, pc,
                   s, quote, it, err, skipped>>
    /\ UNCHANGED execvars

CurrentToken ==
    /\ pc = "done"
    /\ ret' = tokens_[token_id_ + 1]
    /\ op' = "current"
    /\ UNCHANGED <<text, cachedIt, input, tokens_, token_id_, indent,
                   cur_indent, pc, s, quote, it, err, skipped>>
    /\ UNCHANGED execvars

(***************************************************************************)
(* runtime::ObjectHolder and the objects it holds, runtime.cpp lines 11-62.*)
(* A holder is empty (None), or points at a Number, Bool, String, Class or *)
(* ClassInstance; `own` tells an owning holder from the non-owning one     *)
(* that ObjectHolder::Share makes.  A ClassInstance is named by its place  *)
(* in the heap.                                                            *)
(***************************************************************************)
None == [k |-> "None", num |-> 0, str |-> <<>>, own |-> TRUE]
Number(n) == [k |-> "Number", num |-> n, str |-> <<>>, own |-> TRUE]
Bool(b) == [k |-> "Bool", num |-> IF b THEN 1 ELSE 0, str |-> <<>>, own |-> TRUE]
String(w) == [k |-> "String", num |-> 0, str |-> w, own |-> TRUE]
ClassValue(name) == [k |-> "Class", num |-> 0, str |-> <<name>>, own |-> TRUE]
Own(id) == [k |-> "ClassInstance", num |-> id, str |-> <<>>, own |-> TRUE]
Share(id) == [k |-> "ClassInstance", num |-> id, str |-> <<>>, own |-> FALSE]

\* runtime.cpp lines 46-62
IsTrue(object) ==
    CASE object.k = "String" -> object.str /= <<>>
      [] object.k = "Number" -> object.num /= 0
      [] object.k = "Bool" -> object.num = 1
      [] OTHER -> FALSE

(***************************************************************************)
(* runtime::Closure: a map from names to holders.                          *)
(***************************************************************************)
EmptyClosure == [n \in {} |-> None]
Has(cl, name) == name \in DOMAIN cl
\* closure[name] = value
Set(cl, name, value) ==
    [n \in DOMAIN cl \cup {name} |-> IF n = name THEN value ELSE cl[n]]

(***************************************************************************)
(* AST nodes (namespace ast).  A node has a kind, the names it carries and *)
(* its child nodes, in the order the source evaluates them.                *)
(***************************************************************************)
Node(k, names, kids) == [k |-> k, names |-> names, kids |-> kids]
VariableValue(dotted_ids) == Node("VariableValue", dotted_ids, <<>>)
Assignment(var, rv) == Node("Assignment", <<var>>, <<rv>>)
FieldAssignment(object, field_name, rv) == Node("FieldAssignment", <<field_name>>, <<object, rv>>)
MethodCall(object, method, args) == Node("MethodCall", <<method>>, <<object>> \o args)
NewInstance(class, args) == Node("NewInstance", <<class>>, args)
Compound(stmts) == Node("Compound", <<>>, stmts)
Return(statement) == Node("Return", <<>>, <<statement>>)
IfElse(condition, if_body, else_body) == Node("IfElse", <<>>, <<condition, if_body>> \o else_body)
Or(lhs, rhs) == Node("Or", <<>>, <<lhs, rhs>>)
And(lhs, rhs) == Node("And", <<>>, <<lhs, rhs>>)
Not(argument) == Node("Not", <<>>, <<argument>>)
MethodBody(body) == Node("MethodBody", <<>>, <<body>>)

RETURN_VAL == "return_val"
INIT_METHOD == "__init__"

(***************************************************************************)
(* runtime::Class, runtime.cpp lines 117-136.                              *)
(***************************************************************************)
Method(name, formal_params, body) ==
    [name |-> name, formal_params |-> formal_params, body |-> body]
\* the nullptr that GetMethod returns when no class of the chain has the name
NoMethod == Method("", <<>>, Compound(<<>>))
Class(name, methods, parent) ==
    [name |-> name, methods |-> methods, parent |-> parent]

\* lines 120-132: the first method of that name, along the chain of parents
RECURSIVE GetMethod(_, _)
GetMethod(cls, name) ==
    LET c == classes[cls]
        own == {i \in 1..Len(c.methods) : c.methods[i].name = name}
    IN  IF own /= {}
        THEN c.methods[CHOOSE i \in own : \A j \in own : i <= j]
        ELSE IF c.parent /= "" THEN GetMethod(c.parent, name) ELSE NoMethod

\* ClassInstance::HasMethod, lines 73-80
HasMethod(cls, method, argument_count) ==
    LET meth == GetMethod(cls, method)
    IN  meth /= NoMethod /\ Len(meth.formal_params) = argument_count

\* ClassInstance::ClassInstance, lines 90-94: the field self is a non-owning
\* handle of the object under construction, here the instance id
ClassInstance(cls, id) ==
    [cls |-> cls, fields |-> Set(EmptyClosure, "self", Share(id))]

(***************************************************************************)
(* What running a statement does besides yielding a value: the heap it     *)
(* leaves, the error it throws, and a record of the nodes entered, the     *)
(* nodes finished with their values, and the activations of methods.  A    *)
(* node is named by its path: the activation it runs in (0 for the root    *)
(* statement, k for the k-th call) followed by child indices.              *)
(***************************************************************************)
Effects(h) ==
    [heap |-> h, err |-> "", entered |-> <<>>, done |-> <<>>,
     frames |-> <<>>, exits |-> <<>>]

Result(val, cl, st) == [val |-> val, cl |-> cl, st |-> st]
\* throw std::runtime_error(msg)
Throw(msg, cl, st) == Result(None, cl, [st EXCEPT !.err = msg])
Thrown(r) == r.st.err /= ""

\* the messages of the std::runtime_error objects the executor throws
RuntimeErrors ==
    {"there is no variable", "object is not ClassInstance", "method not found"}
\* the process dies on the null pointer: nothing is thrown or reported
SIGSEGV == "SIGSEGV"
\* what a member call through a null ClassInstance* may do: kill the
\* process, or carry on without a receiver
NullDerefs == {"segv", "skip"}
NullCall(cl, st) ==
    IF nullDeref = "segv" THEN Throw(SIGSEGV, cl, st) ELSE Result(None, cl, st)

\* runtime.cpp lines 105-107: the formal parameters bound in order
RECURSIVE BindParams(_, _, _, _)
BindParams(formal_params, actual_args, i, cl) ==
    IF i > Len(actual_args) THEN cl
    ELSE BindParams(formal_params, actual_args, i + 1,
                    Set(cl, formal_params[i], actual_args[i]))

\* the activation scope with self bound before the parameters
SelfFirstScope(formal_params, actual_args, this) ==
    BindParams(formal_params, actual_args, 1,
               Set(EmptyClosure, "self", Share(this)))

\* runtime.cpp lines 103-108: the activation scope of a call
ActivationScope(formal_params, actual_args, this) ==
    Set(BindParams(formal_params, actual_args, 1, EmptyClosure),
        "self", Share(this))

RECURSIVE Execute(_, _, _, _)
RECURSIVE ExecuteArgs(_, _, _, _, _, _)
RECURSIVE CompoundLoop(_, _, _, _, _)
RECURSIVE Call(_, _, _, _)
RECURSIVE FieldWalk(_, _, _, _, _)

\* runtime.cpp line 110, the return: the activation is over
CallReturn(k, r) ==
    IF Thrown(r) THEN r
    ELSE Result(r.val, r.cl,
                [r.st EXCEPT !.exits = Append(@,
                    [frame |-> k, scope |-> r.cl, ret |-> r.val])])

\* runtime.cpp lines 103-110: activation k runs the body against args
CallBody(k, this, method_ptr, actual_args, args, st) ==
    CallReturn(k,
        Execute(method_ptr.body, <<k>>, args,
                [st EXCEPT !.frames = Append(@,
                    [inst |-> this, method |-> method_ptr.name, scope |-> args,
                     actual_args |-> actual_args, body |-> method_ptr.body])]))

\* runtime.cpp lines 101-110
CallMethod(this, method_ptr, actual_args, st) ==
    CallBody(Len(st.frames) + 1, this, method_ptr, actual_args,
             ActivationScope(method_ptr.formal_params, actual_args, this), st)

\* ClassInstance::Call, runtime.cpp lines 96-115
Call(this, method, actual_args, st) ==
    IF HasMethod(st.heap[this].cls, method, Len(actual_args))
    THEN CallMethod(this, GetMethod(st.heap[this].cls, method), actual_args, st)
    ELSE Throw("method not found", EmptyClosure, st)

\* the argument lists of MethodCall and NewInstance, left to right:
\* kids[from..] evaluated into acc
ExecuteArgs(kids, from, path, cl, st, acc) ==
    IF from > Len(kids) THEN [vals |-> acc, cl |-> cl, st |-> st]
    ELSE LET r == Execute(kids[from], Append(path, from), cl, st)
         IN  IF Thrown(r) THEN [vals |-> acc, cl |-> r.cl, st |-> r.st]
             ELSE ExecuteArgs(kids, from + 1, path, r.cl, r.st, Append(acc, r.val))

\* Assignment::Execute, lexer.cpp lines 367-370
AssignmentExecute(node, path, cl, st) ==
    LET r == Execute(node.kids[1], Append(path, 1), cl, st)
    IN  IF Thrown(r) THEN r
        ELSE Result(r.val, Set(r.cl, node.names[1], r.val), r.st)

\* VariableValue::Execute, lines 394-401, with a lookup that leaves the
\* field map of the instance as it is
FieldWalkNoInsert(object, vars_, i, cl, st) ==
    IF i > Len(vars_) THEN Result(object, cl, st)
    ELSE IF object.k = "ClassInstance"
    THEN LET fields == st.heap[object.num].fields
         IN  IF Has(fields, vars_[i])
             THEN FieldWalk(fields[vars_[i]], vars_, i + 1, cl, st)
             ELSE FieldWalk(None, vars_, i + 1, cl, st)
    ELSE Throw("object is not ClassInstance", cl, st)

\* VariableValue::Execute, lines 394-401: Fields()[vars_[i]] makes the field
\* when the instance does not have it
FieldWalk(object, vars_, i, cl, st) ==
    IF i > Len(vars_) THEN Result(object, cl, st)
    ELSE IF object.k = "ClassInstance"
    THEN LET fields == st.heap[object.num].fields
         IN  IF Has(fields, vars_[i])
             THEN FieldWalk(fields[vars_[i]], vars_, i + 1, cl, st)
             ELSE FieldWalk(None, vars_, i + 1, cl,
                     [st EXCEPT !.heap[object.num].fields = Set(fields, vars_[i], None)])
    ELSE Throw("object is not ClassInstance", cl, st)

\* VariableValue::Execute, lines 388-404
VariableValueExecute(node, path, cl, st) ==
    IF ~Has(cl, node.names[1])
    THEN Throw("there is no variable", cl, st)
    ELSE FieldWalk(cl[node.names[1]], node.names, 2, cl, st)

\* the value and the effects of r, in the Closure cl of the caller
InClosure(cl, r) == Result(r.val, cl, r.st)

\* MethodCall::Execute, line 453: object->Call, the receiver not tested
MethodCallDispatch(node, object, a) ==
    IF a.st.err /= "" THEN Result(None, a.cl, a.st)
    ELSE IF object.k /= "ClassInstance" THEN NullCall(a.cl, a.st)
    ELSE InClosure(a.cl, Call(object.num, node.names[1], a.vals, a.st))

\* MethodCall::Execute, lines 449-453, o what object_ evaluated to
MethodCallArgs(node, path, o) ==
    IF Thrown(o) THEN o
    ELSE MethodCallDispatch(node, o.val,
            ExecuteArgs(node.kids, 2, path, o.cl, o.st, <<>>))

\* MethodCall::Execute, lines 447-454
MethodCallExecute(node, path, cl, st) ==
    MethodCallArgs(node, path, Execute(node.kids[1], Append(path, 1), cl, st))

\* Compound::Execute, lines 549-557, from statement i on, never leaving
\* the loop early
CompoundLoopNoAbort(stmts, i, path, cl, st) ==
    IF i > Len(stmts) THEN Result(None, cl, st)
    ELSE LET r == Execute(stmts[i], Append(path, i), cl, st)
         IN  IF Thrown(r) THEN r
             ELSE CompoundLoop(stmts, i + 1, path, r.cl, r.st)

\* Compound::Execute, lines 549-557, from statement i on
CompoundLoop(stmts, i, path, cl, st) ==
    IF i > Len(stmts) THEN Result(None, cl, st)
    ELSE LET r == Execute(stmts[i], Append(path, i), cl, st)
         IN  IF Thrown(r) THEN r
             ELSE IF Has(r.cl, RETURN_VAL) THEN Result(None, r.cl, r.st)
             ELSE CompoundLoop(stmts, i + 1, path, r.cl, r.st)

CompoundExecute(node, path, cl, st) == CompoundLoop(node.kids, 1, path, cl, st)

\* Return::Execute, lines 559-562
ReturnExecute(node, path, cl, st) ==
    LET r == Execute(node.kids[1], Append(path, 1), cl, st)
    IN  IF Thrown(r) THEN r
        ELSE Result(None, Set(r.cl, RETURN_VAL, r.val), r.st)

\* FieldAssignment::Execute, lines 585-586, r what rv_ evaluated to
FieldAssignmentStore(node, id, r) ==
    IF Thrown(r) THEN r
    ELSE Result(r.val, r.cl,
                [r.st EXCEPT !.heap[id].fields = Set(@, node.names[1], r.val)])

\* FieldAssignment::Execute, lines 584-585, o what object_ evaluated to:
\* ->Fields() on it, not tested
FieldAssignmentFields(node, path, o) ==
    IF Thrown(o) THEN o
    ELSE IF o.val.k /= "ClassInstance" THEN NullCall(o.cl, o.st)
    ELSE FieldAssignmentStore(node, o.val.num,
            Execute(node.kids[2], Append(path, 2), o.cl, o.st))

\* FieldAssignment::Execute, lines 583-587
FieldAssignmentExecute(node, path, cl, st) ==
    FieldAssignmentFields(node, path,
        Execute(node.kids[1], Append(path, 1), cl, st))

\* IfElse::Execute, lines 597-606
IfElseExecute(node, path, cl, st) ==
    LET c == Execute(node.kids[1], Append(path, 1), cl, st)
    IN  IF Thrown(c) THEN c
        ELSE IF IsTrue(c.val)
        THEN LET r == Execute(node.kids[2], Append(path, 2), c.cl, c.st)
             IN  Result(None, r.cl, r.st)
        ELSE IF Len(node.kids) >= 3
        THEN LET r == Execute(node.kids[3], Append(path, 3), c.cl, c.st)
             IN  Result(None, r.cl, r.st)
        ELSE Result(None, c.cl, c.st)

\* Or::Execute evaluating both operands before it looks at the left one
OrExecuteEager(node, path, cl, st) ==
    LET l == Execute(node.kids[1], Append(path, 1), cl, st)
    IN  IF Thrown(l) THEN l
        ELSE LET r == Execute(node.kids[2], Append(path, 2), l.cl, l.st)
             IN  IF Thrown(r) THEN r
                 ELSE Result(Bool(IsTrue(l.val) \/ IsTrue(r.val)), r.cl, r.st)

\* Or::Execute, lines 608-614
OrExecute(node, path, cl, st) ==
    LET l == Execute(node.kids[1], Append(path, 1), cl, st)
    IN  IF Thrown(l) THEN l
        ELSE IF ~IsTrue(l.val)
        THEN LET r == Execute(node.kids[2], Append(path, 2), l.cl, l.st)
             IN  IF Thrown(r) THEN r
                 ELSE Result(Bool(IsTrue(r.val)), r.cl, r.st)
        ELSE Result(Bool(TRUE), l.cl, l.st)

\* And::Execute, lines 616-622
AndExecute(node, path, cl, st) ==
    LET l == Execute(node.kids[1], Append(path, 1), cl, st)
    IN  IF Thrown(l) THEN l
        ELSE IF IsTrue(l.val)
        THEN LET r == Execute(node.kids[2], Append(path, 2), l.cl, l.st)
             IN  IF Thrown(r) THEN r
                 ELSE Result(Bool(IsTrue(r.val)), r.cl, r.st)
        ELSE Result(Bool(FALSE), l.cl, l.st)

\* Not::Execute, lines 624-626
NotExecute(node, path, cl, st) ==
    LET a == Execute(node.kids[1], Append(path, 1), cl, st)
    IN  IF Thrown(a) THEN a
        ELSE Result(Bool(~IsTrue(a.val)), a.cl, a.st)

\* line 652 with the test of the arity left out
InitAppliesAnyArity(class_, args_count) ==
    GetMethod(class_, INIT_METHOD) /= NoMethod

\* NewInstance::Execute, lines 651-652: __init__ exists and takes the args
InitApplies(class_, args_count) ==
    LET method == GetMethod(class_, INIT_METHOD)
    IN  method /= NoMethod /\ Len(method.formal_params) = args_count

\* NewInstance::Execute, line 661, r what __init__ returned
NewInstanceResult(object, cl, r) ==
    IF Thrown(r) THEN Result(None, cl, r.st)
    ELSE Result(IF r.val /= None THEN r.val ELSE object, cl, r.st)

\* NewInstance::Execute, lines 659-661, a what the args evaluated to
NewInstanceInit(id, a) ==
    IF a.st.err /= "" THEN Result(None, a.cl, a.st)
    ELSE NewInstanceResult(Own(id), a.cl, Call(id, INIT_METHOD, a.vals, a.st))

\* NewInstance::Execute, lines 651-661, object id allocated in st
NewInstanceLookup(node, path, id, cl, st) ==
    IF ~InitApplies(node.names[1], Len(node.kids))
    THEN Result(Own(id), cl, st)
    ELSE NewInstanceInit(id, ExecuteArgs(node.kids, 1, path, cl, st, <<>>))

\* NewInstance::Execute, lines 649-662
NewInstanceExecute(node, path, cl, st) ==
    NewInstanceLookup(node, path, Len(st.heap) + 1, cl,
        [st EXCEPT !.heap = Append(@, ClassInstance(node.names[1], Len(st.heap) + 1))])

\* MethodBody::Execute, lines 669-675
MethodBodyExecute(node, path, cl, st) ==
    LET r == Execute(node.kids[1], Append(path, 1), cl, st)
    IN  IF Thrown(r) THEN r
        ELSE IF Has(r.cl, RETURN_VAL) THEN Result(r.cl[RETURN_VAL], r.cl, r.st)
        ELSE Result(None, r.cl, r.st)

\* Statement::Execute: the virtual call, with the record of the node
Execute(node, path, cl, st) ==
    LET st0 == [st EXCEPT !.entered = Append(@, path)]
        r == CASE node.k = "Assignment" -> AssignmentExecute(node, path, cl, st0)
               [] node.k = "VariableValue" -> VariableValueExecute(node, path, cl, st0)
               [] node.k = "MethodCall" -> MethodCallExecute(node, path, cl, st0)
               [] node.k = "Compound" -> CompoundExecute(node, path, cl, st0)
               [] node.k = "Return" -> ReturnExecute(node, path, cl, st0)
               [] node.k = "FieldAssignment" -> FieldAssignmentExecute(node, path, cl, st0)
               [] node.k = "IfElse" -> IfElseExecute(node, path, cl, st0)
               [] node.k = "Or" -> OrExecute(node, path, cl, st0)
               [] node.k = "And" -> AndExecute(node, path, cl, st0)
               [] node.k = "Not" -> NotExecute(node, path, cl, st0)
               [] node.k = "NewInstance" -> NewInstanceExecute(node, path, cl, st0)
               [] node.k = "MethodBody" -> MethodBodyExecute(node, path, cl, st0)
    IN  IF Thrown(r) THEN r
        ELSE Result(r.val, r.cl,
                    [r.st EXCEPT !.done = Append(@, [path |-> path, val |-> r.val])])

(***************************************************************************)
(* The comparisons, runtime.cpp lines 146-216.  A comparison yields a bool *)
(* and the effects of the methods it called, or throws.                    *)
(***************************************************************************)
Compared(b, st) == [b |-> b, st |-> st]
CompareThrow(msg, st) == Compared(FALSE, [st EXCEPT !.err = msg])

EQUALITY_ERROR == "Cannot compare objects for equality"
LESS_ERROR == "Cannot compare objects for less"

\* what reading GetValue() through a null Bool* does: kill the process, or
\* yield whatever lies there
NullReads == {"segv", "false", "true"}

\* .TryAs<Bool>()->GetValue() on what the method returned, lines 161, 181
GetBoolValue(r) ==
    IF Thrown(r) THEN Compared(FALSE, r.st)
    ELSE IF r.val.k = "Bool" THEN Compared(r.val.num = 1, r.st)
    ELSE IF nullDeref = "segv" THEN CompareThrow(SIGSEGV, r.st)
    ELSE Compared(nullDeref = "true", r.st)

\* the chars of the strings compared, as unsigned char
CharCode == [a |-> 97, b |-> 98]

\* std::string operator<
RECURSIVE StringLess(_, _)
StringLess(v, w) ==
    IF w = <<>> THEN FALSE
    ELSE IF v = <<>> THEN TRUE
    ELSE IF CharCode[Head(v)] /= CharCode[Head(w)]
    THEN CharCode[Head(v)] < CharCode[Head(w)]
    ELSE StringLess(Tail(v), Tail(w))

\* runtime.cpp lines 146-165
Equal(lhs, rhs, st) ==
    IF lhs.k = "Number" /\ rhs.k = "Number" THEN Compared(lhs.num = rhs.num, st)
    ELSE IF lhs.k = "Bool" /\ rhs.k = "Bool" THEN Compared(lhs.num = rhs.num, st)
    ELSE IF lhs.k = "String" /\ rhs.k = "String" THEN Compared(lhs.str = rhs.str, st)
    ELSE IF lhs.k = "None" /\ rhs.k = "None" THEN Compared(TRUE, st)
    ELSE IF lhs.k = "ClassInstance" /\ HasMethod(st.heap[lhs.num].cls, "__eq__", 1)
    THEN GetBoolValue(Call(lhs.num, "__eq__", <<rhs>>, st))
    ELSE CompareThrow(EQUALITY_ERROR, st)

\* runtime.cpp lines 167-185
Less(lhs, rhs, st) ==
    IF lhs.k = "Number" /\ rhs.k = "Number" THEN Compared(lhs.num < rhs.num, st)
    ELSE IF lhs.k = "Bool" /\ rhs.k = "Bool" THEN Compared(lhs.num < rhs.num, st)
    ELSE IF lhs.k = "String" /\ rhs.k = "String"
    THEN Compared(StringLess(lhs.str, rhs.str), st)
    ELSE IF lhs.k = "ClassInstance" /\ HasMethod(st.heap[lhs.num].cls, "__lt__", 1)
    THEN GetBoolValue(Call(lhs.num, "__lt__", <<rhs>>, st))
    ELSE CompareThrow(LESS_ERROR, st)

\* return !x, an exception of x passing through
Negated(c) == IF c.st.err /= "" THEN c ELSE Compared(~c.b, c.st)

\* lines 187-190
NotEqual(lhs, rhs, st) == Negated(Equal(lhs, rhs, st))

\* catch (...) { throw std::runtime_error(...) }, lines 198-200, 209-211:
\* whatever was thrown becomes the error of equality; a dead process
\* catches nothing
Rethrown(c) ==
    IF c.st.err = SIGSEGV THEN c
    ELSE CompareThrow(EQUALITY_ERROR, c.st)

\* line 196, lt what Less yielded
GreaterResult(eq, lt) ==
    IF lt.st.err /= "" THEN Rethrown(lt)
    ELSE Compared(~eq /\ ~lt.b, lt.st)

\* lines 194-196, eq what Equal yielded
GreaterLess(lhs, rhs, eq) ==
    IF eq.st.err /= "" THEN Rethrown(eq)
    ELSE GreaterResult(eq.b, Less(lhs, rhs, eq.st))

\* lines 192-201
Greater(lhs, rhs, st) == GreaterLess(lhs, rhs, Equal(lhs, rhs, st))

\* return lt, with eq left out
LessOrEqualResultLessOnly(eq, lt) ==
    IF lt.st.err /= "" THEN Rethrown(lt)
    ELSE Compared(lt.b, lt.st)

\* line 207, lt what Less yielded
LessOrEqualResult(eq, lt) ==
    IF lt.st.err /= "" THEN Rethrown(lt)
    ELSE Compared(eq \/ lt.b, lt.st)

\* lines 205-207, eq what Equal yielded
LessOrEqualLess(lhs, rhs, eq) ==
    IF eq.st.err /= "" THEN Rethrown(eq)
    ELSE LessOrEqualResult(eq.b, Less(lhs, rhs, eq.st))

\* lines 203-212
LessOrEqual(lhs, rhs, st) == LessOrEqualLess(lhs, rhs, Equal(lhs, rhs, st))

\* lines 214-216
GreaterOrEqual(lhs, rhs, st) == Negated(Less(lhs, rhs, st))

(***************************************************************************)
(* Programs.  The driver runs root statements one after the other against  *)
(* one Closure; an error ends the program.                                 *)
(***************************************************************************)
\* how many root statements a program runs after its first lines
MaxSteps == 1
\* the longest list of arguments and of formal parameters
MaxArgs == 2
\* how deep a Return lies inside Compound and IfElse nodes of a method body
MaxNest == 2

V(name) == VariableValue(<<name>>)

\* the lists of at most MaxArgs elements of S
Lists(S) == UNION {[1..n -> S] : n \in 0..MaxArgs}

\* the Closure after  t = True, n = None, x = 1, e = 'a'  and  class A
Globals ==
    [t |-> Bool(TRUE), n |-> None, x |-> Number(1), e |-> String(<<"a">>),
     c |-> ClassValue("A")]

\* class A:  def m(p): return p   def g(): return self
\* class B(A):  def __init__(p): self.a = p
\* class C(B)
\* class D:  def __init__(p, q): self.a = q; return p
Program ==
    [A |-> Class("A",
             <<Method("m", <<"p">>, MethodBody(Compound(<<Return(V("p"))>>))),
               Method("g", <<>>, MethodBody(Compound(<<Return(V("self"))>>)))>>,
             ""),
     B |-> Class("B",
             <<Method(INIT_METHOD, <<"p">>,
                 MethodBody(Compound(<<FieldAssignment(V("self"), "a", V("p"))>>)))>>,
             "A"),
     C |-> Class("C", <<>>, "B"),
     D |-> Class("D",
             <<Method(INIT_METHOD, <<"p", "q">>,
                 MethodBody(Compound(<<FieldAssignment(V("self"), "a", V("q")),
                                       Return(V("p"))>>)))>>,
             "")]

\* expressions: every kind of value, an absent variable, an instance
Atoms == {V("t"), V("n"), V("x"), V("e"), V("c"), V("u"), V("o")}
\* operands and arguments: a true and a false value, one that throws and
\* one that changes the scope
ArgExprs == {V("t"), V("n"), V("u"), Assignment("y", V("x"))}
\* arguments of a constructor: a value, one that throws and one that changes
\* the scope
InitArgExprs == {V("t"), V("u"), Assignment("y", V("x"))}

NoRun ==
    [ran |-> FALSE, stmt |-> Compound(<<>>), before |-> EmptyClosure,
     heap0 |-> <<>>, val |-> None, err |-> "", entered |-> <<>>,
     done |-> <<>>, frames |-> <<>>, exits |-> <<>>]

\* no operands compared
NoCompare == [lhs |-> None, rhs |-> None, out |-> EmptyClosure]

\* the driver runs one root statement
Run(stmt) ==
    /\ pc = "exec"
    /\ steps < MaxSteps
    /\ last.err = ""
    /\ LET r == Execute(stmt, <<0>>, closure, Effects(heap))
       IN  /\ closure' = r.cl
           /\ heap' = r.st.heap
           /\ last' = [ran |-> TRUE, stmt |-> stmt, before |-> closure,
                       heap0 |-> heap, val |-> r.val, err |-> r.st.err,
                       entered |-> r.st.entered, done |-> r.st.done,
                       frames |-> r.st.frames, exits |-> r.st.exits]
    /\ steps' = steps + 1
    /\ UNCHANGED <<classes, nullDeref, cmp>>

\* no lexer at work
LexIdle ==
    /\ text = <<>>
    /\ cachedIt = FALSE
    /\ input = [pos |-> 0, eof |-> FALSE, fail |-> FALSE]
    /\ tokens_ = <<>>
    /\ token_id_ = 0
    /\ indent = 0
    /\ cur_indent = 0
    /\ pc = "exec"
    /\ s = <<>>
    /\ quote = NoChar
    /\ it = NoChar
    /\ err = ""
    /\ skipped = FALSE
    /\ op = "none"
    /\ ret = Tok("Eof")

\* no program at work
ExecIdle ==
    /\ classes = Program
    /\ closure = EmptyClosure
    /\ heap = <<>>
    /\ nullDeref = "segv"
    /\ steps = 0
    /\ last = NoRun
    /\ cmp = NoCompare

\* the first lines of a program have run:  o = A(), where A has no __init__
\* (NewInstance::Execute, lines 650-653, and Assignment::Execute)
Started ==
    /\ steps = 0
    /\ last = NoRun
    /\ cmp = NoCompare
    /\ closure = Set(Globals, "o", Own(1))
    /\ heap = <<ClassInstance("A", 1)>>

RunAssignment ==
    \E class \in DOMAIN classes, args \in Lists(InitArgExprs) :
        /\ Run(Assignment("o", NewInstance(class, args)))
        /\ UNCHANGED lexvars

RunMethodCall ==
    \E object \in Atoms, method \in {"m", "k"},
       args \in Lists({V("x"), Assignment("y", V("x"))}) :
        /\ Run(MethodCall(object, method, args))
        /\ UNCHANGED lexvars

RunFieldAssignment ==
    \E object \in {V("o"), V("x")} :
        /\ Run(FieldAssignment(object, "a", V("x")))
        /\ UNCHANGED lexvars

RunOr ==
    \E lhs \in Atoms, rhs \in ArgExprs :
        /\ Run(Or(lhs, rhs))
        /\ UNCHANGED lexvars

RunAnd ==
    \E lhs \in Atoms, rhs \in ArgExprs :
        /\ Run(And(lhs, rhs))
        /\ UNCHANGED lexvars

RunNot ==
    \E argument \in Atoms :
        /\ Run(Not(argument))
        /\ UNCHANGED lexvars

RunIfElse ==
    \E condition \in Atoms, else_body \in {<<>>, <<Assignment("y", V("n"))>>} :
        /\ Run(IfElse(condition, Assignment("y", V("t")), else_body))
        /\ UNCHANGED lexvars

\* Program after  o = A()
ExecInit ==
    /\ LexIdle
    /\ classes = Program
    /\ nullDeref \in NullDerefs
    /\ Started

ExecNext ==
    \/ RunAssignment
    \/ RunMethodCall
    \/ RunFieldAssignment
    \/ RunOr
    \/ RunAnd
    \/ RunNot
    \/ RunIfElse

SpecExec == ExecInit /\ [][ExecNext]_vars

(***************************************************************************)
(* Programs whose class A has a method m with a Return nested in Compound  *)
(* and IfElse nodes, under every choice of names for its parameters.       *)
(***************************************************************************)
\* a statement that runs after the Return when the Compound does not stop
AfterReturn == FieldAssignment(V("self"), "a", V("self"))
\* a statement that calls a method, which returns, before the Return
BeforeReturn == Assignment("y", MethodCall(V("self"), "g", <<>>))

\* return p  under depth Compound and IfElse nodes
RECURSIVE Nested(_)
Nested(depth) ==
    IF depth = 0 THEN {Return(V("p"))}
    ELSE LET inner == Nested(depth - 1)
         IN  {Compound(<<b, AfterReturn>>) : b \in inner}
             \cup {Compound(<<BeforeReturn, b>>) : b \in inner}
             \cup {IfElse(V("p"), b, <<>>) : b \in inner}
             \cup {IfElse(V("p"), b, <<AfterReturn>>) : b \in inner}
             \cup {IfElse(V("p"), AfterReturn, <<b>>) : b \in inner}

Bodies ==
    {MethodBody(b) : b \in UNION {Nested(depth) : depth \in 0..MaxNest}}
    \cup {MethodBody(Return(V("self")))}

NestedProgram(formal_params, body) ==
    [A |-> Class("A",
             <<Method("m", formal_params, body),
               Method("g", <<>>, MethodBody(Return(V("self"))))>>,
             "")]

\* o.m(args): every arg x, which is true, or every arg n, which is not
RunCall ==
    \E args \in Lists({V("x")}) \cup Lists({V("n")}) :
        /\ Run(MethodCall(V("o"), "m", args))
        /\ UNCHANGED lexvars

\* r = o.g()
RunCallAssigned ==
    /\ Run(Assignment("r", MethodCall(V("o"), "g", <<>>)))
    /\ UNCHANGED lexvars

\* a program with such a class after  o = A(); none of its statements calls
\* through a null pointer
CallInit ==
    /\ LexIdle
    /\ \E formal_params \in Lists({"p", "self"}), body \in Bodies :
           classes = NestedProgram(formal_params, body)
    /\ nullDeref = "segv"
    /\ Started

CallNext ==
    \/ RunCall
    \/ RunCallAssigned

SpecCall == CallInit /\ [][CallNext]_vars

(***************************************************************************)
(* Programs that compare two values: the comparisons applied, one after    *)
(* the other in any order, to the same two operands.  Class A defines      *)
(* __eq__ and __lt__ with bodies that change nothing, class E defines      *)
(* __eq__ alone.                                                           *)
(***************************************************************************)
\* return rhs, return not rhs, return not not rhs
CompareBodies ==
    {MethodBody(Return(V("rhs"))),
     MethodBody(Return(Not(V("rhs")))),
     MethodBody(Return(Not(Not(V("rhs")))))}

CompareProgram(eq_body, lt_body) ==
    [A |-> Class("A",
             <<Method("__eq__", <<"rhs">>, eq_body),
               Method("__lt__", <<"rhs">>, lt_body)>>,
             ""),
     E |-> Class("E", <<Method("__eq__", <<"rhs">>, eq_body)>>, "")]

\* operands: two of each kind of value, an instance of A and one of E
Operands ==
    {None, Number(0), Number(1), Bool(FALSE), Bool(TRUE),
     String(<<>>), String(<<"a">>), String(<<"a", "b">>), String(<<"b">>),
     Own(1), Own(2)}

Comparisons ==
    {"Equal", "Less", "NotEqual", "Greater", "LessOrEqual", "GreaterOrEqual"}

\* one comparison of the operands, c what it yields from the heap as it is
Apply(name, c) ==
    /\ pc = "exec"
    /\ ~Has(cmp.out, name)
    /\ \A n \in DOMAIN cmp.out : cmp.out[n].err /= SIGSEGV
    /\ cmp' = [cmp EXCEPT !.out = Set(@, name, [b |-> c.b, err |-> c.st.err])]
    /\ heap' = c.st.heap
    /\ UNCHANGED <<classes, closure, nullDeref, steps, last>>

ApplyEqual ==
    /\ Apply("Equal", Equal(cmp.lhs, cmp.rhs, Effects(heap)))
    /\ UNCHANGED lexvars

ApplyLess ==
    /\ Apply("Less", Less(cmp.lhs, cmp.rhs, Effects(heap)))
    /\ UNCHANGED lexvars

ApplyNotEqual ==
    /\ Apply("NotEqual", NotEqual(cmp.lhs, cmp.rhs, Effects(heap)))
    /\ UNCHANGED lexvars

ApplyGreater ==
    /\ Apply("Greater", Greater(cmp.lhs, cmp.rhs, Effects(heap)))
    /\ UNCHANGED lexvars

ApplyLessOrEqual ==
    /\ Apply("LessOrEqual", LessOrEqual(cmp.lhs, cmp.rhs, Effects(heap)))
    /\ UNCHANGED lexvars

ApplyGreaterOrEqual ==
    /\ Apply("GreaterOrEqual", GreaterOrEqual(cmp.lhs, cmp.rhs, Effects(heap)))
    /\ UNCHANGED lexvars

\* a program with such classes after  a = A()  and  e = E()
CompareInit ==
    /\ LexIdle
    /\ \E eq_body \in CompareBodies, lt_body \in CompareBodies :
           classes = CompareProgram(eq_body, lt_body)
    /\ closure = [a |-> Own(1), e |-> Own(2)]
    /\ heap = <<ClassInstance("A", 1), ClassInstance("E", 2)>>
    /\ nullDeref \in NullReads
    /\ steps = 0
    /\ last = NoRun
    /\ \E lhs \in Operands, rhs \in Operands :
           cmp = [lhs |-> lhs, rhs |-> rhs, out |-> EmptyClosure]

CompareNext ==
    \/ ApplyEqual
    \/ ApplyLess
    \/ ApplyNotEqual
    \/ ApplyGreater
    \/ ApplyLessOrEqual
    \/ ApplyGreaterOrEqual

SpecCompare == CompareInit /\ [][CompareNext]_vars

(***************************************************************************)
(* The lexer on texts that begin with a run of digits: the decimal         *)
(* numerals around the largest int and the largest 64-bit integer.         *)
(***************************************************************************)
\* the longest run of digits in such a text
MaxDigits == 20

INT_MAX_DIGITS == <<"2", "1", "4", "7", "4", "8", "3", "6", "4", "7">>
I64_MAX_DIGITS ==
    <<"9", "2", "2", "3", "3", "7", "2", "0", "3", "6",
      "8", "5", "4", "7", "7", "5", "8", "0", "7">>

\* a beginning of one of the two numerals with any digit after it
Numerals ==
    UNION {{SubSeq(w, 1, n) \o <<c>> : n \in 0..(Len(w) - 1), c \in Digits} :
              w \in {INT_MAX_DIGITS, I64_MAX_DIGITS}}

\* a numeral, after a zero or not, before the end, a newline or a space and
\* another number
NumberTexts ==
    {text_ \in {zero \o w \o rest :
                   zero \in {<<>>, <<"0">>}, w \in Numerals,
                   rest \in {<<>>, <<NL>>, <<SP, "1">>}} :
        \A n \in 1..Len(text_) :
            (\A i \in 1..n : IsDigit(text_[i])) => n <= MaxDigits}

\* Lexer::Lexer on such a text; no istreambuf_iterator is made for it
NumberInit ==
    /\ text \in NumberTexts
    /\ cachedIt = FALSE
    /\ input = [pos |-> 0, eof |-> FALSE, fail |-> FALSE]
    /\ tokens_ = <<>>
    /\ token_id_ = 0
    /\ indent = 0
    /\ cur_indent = 0
    /\ pc = "main"
    /\ s = <<>>
    /\ quote = NoChar
    /\ it = NoChar
    /\ err = ""
    /\ skipped = FALSE
    /\ op = "none"
    /\ ret = Tok("Eof")
    /\ ExecIdle

NumberNext ==
    \/ Iterate
    \/ LoadNumberStep
    \/ Finish

SpecNumber == NumberInit /\ [][NumberNext]_vars

(***************************************************************************)
(* The lexer on texts made of lines: some spaces, then the token ':' or    *)
(* nothing.                                                                *)
(***************************************************************************)
\* how many lines such a text has
MaxLines == 4
\* how many spaces a line begins with
MaxSpaces == 4

Lines ==
    {Repeat(SP, n) \o body : n \in 0..MaxSpaces, body \in {<<>>, <<":">>}}

\* the lines from the i-th on, a newline between two of them
RECURSIVE Joined(_, _)
Joined(ls, i) ==
    IF i > Len(ls) THEN <<>>
    ELSE IF i = Len(ls) THEN ls[i]
    ELSE ls[i] \o <<NL>> \o Joined(ls, i + 1)

IndentTexts == {Joined(ls, 1) : ls \in UNION {[1..n -> Lines] : n \in 1..MaxLines}}

\* Lexer::Lexer on such a text; no istreambuf_iterator is made for it
IndentInit ==
    /\ text \in IndentTexts
    /\ cachedIt = FALSE
    /\ input = [pos |-> 0, eof |-> FALSE, fail |-> FALSE]
    /\ tokens_ = <<>>
    /\ token_id_ = 0
    /\ indent = 0
    /\ cur_indent = 0
    /\ pc = "main"
    /\ s = <<>>
    /\ quote = NoChar
    /\ it = NoChar
    /\ err = ""
    /\ skipped = FALSE
    /\ op = "none"
    /\ ret = Tok("Eof")
    /\ ExecIdle

IndentNext ==
    \/ Iterate
    \/ Finish

SpecIndent == IndentInit /\ [][IndentNext]_vars

(***************************************************************************)
(* Reads of dotted names, with writes of fields between them.              *)
(***************************************************************************)
\* how many statements such a program runs
MaxReads == 2
\* how many names a dotted name has
MaxPath == 3

\* the names of fields: one that instances have, one that none has at first
FieldNames == {"a", "z"}

\* an instance, a Number and an absent variable, then names of fields
DottedIds ==
    UNION {{<<first>> \o rest : first \in {"o", "x", "u"},
                                rest \in [1..n -> FieldNames]}
           : n \in 0..(MaxPath - 1)}

\* the driver runs one more root statement
RunNext(stmt) ==
    /\ pc = "exec"
    /\ steps < MaxReads
    /\ last.err = ""
    /\ LET r == Execute(stmt, <<0>>, closure, Effects(heap))
       IN  /\ closure' = r.cl
           /\ heap' = r.st.heap
           /\ last' = [ran |-> TRUE, stmt |-> stmt, before |-> closure,
                       heap0 |-> heap, val |-> r.val, err |-> r.st.err,
                       entered |-> r.st.entered, done |-> r.st.done,
                       frames |-> r.st.frames, exits |-> r.st.exits]
    /\ steps' = steps + 1
    /\ UNCHANGED <<classes, nullDeref, cmp>>

RunVariableValue ==
    \E dotted_ids \in DottedIds :
        /\ RunNext(VariableValue(dotted_ids))
        /\ UNCHANGED lexvars

RunFieldWrite ==
    \E object \in {V("o"), VariableValue(<<"o", "a">>)},
       field_name \in FieldNames, rv \in {V("x"), V("o")} :
        /\ RunNext(FieldAssignment(object, field_name, rv))
        /\ UNCHANGED lexvars

\* Program after  o = A()  o.a = A()  o.a.a = 1
ReadInit ==
    /\ LexIdle
    /\ classes = Program
    /\ nullDeref = "segv"
    /\ steps = 0
    /\ last = NoRun
    /\ cmp = NoCompare
    /\ closure = Set(Globals, "o", Own(1))
    /\ heap = <<[cls |-> "A",
                 fields |-> Set(ClassInstance("A", 1).fields, "a", Own(2))],
                [cls |-> "A",
                 fields |-> Set(ClassInstance("A", 2).fields, "a", Number(1))]>>

ReadNext ==
    \/ RunVariableValue
    \/ RunFieldWrite

SpecRead == ReadInit /\ [][ReadNext]_vars

Init == LexInit /\ ExecIdle

Next ==
    \/ Iterate
    \/ CommentStep
    \/ LoadNumberStep
    \/ LoadIdStep
    \/ LoadStringStep
    \/ Finish
    \/ NextToken
    \/ CurrentToken

Spec == Init /\ [][Next]_vars

(***************************************************************************)
(* Properties of the lexer.                                                *)
(***************************************************************************)
Lexed == pc = "done"

\* every Indent has its own later Dedent: no prefix closes more than it
\* opened, and the whole sequence closes all it opened
Matched(toks) ==
    /\ \A k \in 0..Len(toks) :
          Count(SubSeq(toks, 1, k), "Dedent") <= Count(SubSeq(toks, 1, k), "Indent")
    /\ Count(toks, "Indent") = Count(toks, "Dedent")

\* C1: in the token sequence of every lex that completes, the Indent tokens
\* are as many as the Dedent tokens and each Indent is matched by a later
\* Dedent before Eof, whatever the end of the input looks like.
C1_Balanced == Lexed => Matched(tokens_)

\* C2: the constructor terminates on every finite input; in particular every
\* turn of the loops of LoadId and LoadString moves on through the input:
\* the loop either ends or its next turn looks at a later position and has
\* consumed the char it looked at.
C2_Progress ==
    [][(pc \in {"LoadId", "LoadString"} /\ pc' = pc)
          => (input'.pos > input.pos /\ ItDeref(input', it') = Sgetc(input'))]_vars

\* C5: the cursor always indexes a token; NextToken moves it on by exactly
\* one and returns the token there until it is on Eof, and from then on
\* returns Eof and leaves it where it is; CurrentToken returns the token at
\* the cursor and never moves it.
C5_Cursor ==
    /\ [](Lexed => token_id_ \in 0..(Len(tokens_) - 1))
    /\ [][(Lexed /\ op' = "next")
             => /\ token_id_' = IF tokens_[token_id_ + 1].type = "Eof"
                                THEN token_id_ ELSE token_id_ + 1
                /\ ret' = tokens_[token_id_' + 1]
                /\ tokens_[token_id_ + 1].type = "Eof" => ret'.type = "Eof"]_vars
    /\ [][(Lexed /\ op' = "current")
             => /\ token_id_' = token_id_
                /\ ret' = tokens_[token_id_ + 1]]_vars

\* the cursor has walked over tokens up to Eof and NextToken returned Eof
C5_Witness ==
    /\ Lexed
    /\ op = "next"
    /\ token_id_ >= 2
    /\ ret.type = "Eof"

\* C6: no two Newline tokens are adjacent in the token sequence of a lex
\* that completes.
C6_NoAdjacentNewlines ==
    Lexed => \A i \in 1..(Len(tokens_) - 1) :
                ~(tokens_[i].type = "Newline" /\ tokens_[i + 1].type = "Newline")

\* a completed lex of a text with a blank line after a token, and of one
\* with a comment-only line
C6_Witness ==
    /\ Lexed
    /\ Count(tokens_, "Newline") >= 1
    /\ \E i \in 1..(Len(text) - 2) :
          /\ text[i] = "1"
          /\ text[i + 1] = NL
          /\ text[i + 2] \in {NL, "#"}
          /\ i + 3 <= Len(text) => text[i + 3] = NL

\* C9: a lex in which the constructor met, outside a string literal and a
\* comment, a char that begins no lexeme does not complete: it fails with a
\* LexerError.
C9_UnexpectedCharFails == skipped => ~Lexed

(***************************************************************************)
(* Properties of the executor, read off the record of the last run.        *)
(***************************************************************************)
Entered(path) == \E i \in 1..Len(last.entered) : last.entered[i] = path
Finished(path) == \E i \in 1..Len(last.done) : last.done[i].path = path
\* the value the node at path yielded
ValueOf(path) ==
    last.done[CHOOSE i \in 1..Len(last.done) : last.done[i].path = path].val

\* the node at the child indices rel under node
RECURSIVE Sub(_, _)
Sub(node, rel) ==
    IF rel = <<>> THEN node ELSE Sub(node.kids[Head(rel)], Tail(rel))
\* the node at a path of an activation
NodeAt(path) == Sub(last.frames[path[1]].body, Tail(path))

\* the Return statements that executed in an activation of a method
ReturnsDone ==
    {i \in 1..Len(last.done) :
        /\ last.done[i].path[1] >= 1
        /\ NodeAt(last.done[i].path).k = "Return"}

\* activation k had a Return execute
Returned(k) == \E i \in ReturnsDone : last.done[i].path[1] = k

\* C3: when a Return executes at any depth of Compound and IfElse nodes of
\* a method body run by ClassInstance::Call, no later statement of any
\* enclosing Compound of that method is executed, the call yields exactly
\* the value of the Return's expression, and return_val is in no scope but
\* the activation scope of that call: not in the caller's scope, not in the
\* fields of an instance, not in the scope of an activation without Return.
C3_ReturnEndsMethod ==
    /\ \A i \in ReturnsDone :
          LET path == last.done[i].path
          IN  /\ \A n \in 1..(Len(path) - 1) :
                    NodeAt(SubSeq(path, 1, n)).k = "Compound" =>
                        \A j \in (path[n + 1] + 1)..Len(NodeAt(SubSeq(path, 1, n)).kids) :
                            ~Entered(Append(SubSeq(path, 1, n), j))
              /\ \E x \in 1..Len(last.exits) :
                    /\ last.exits[x].frame = path[1]
                    /\ last.exits[x].ret = ValueOf(Append(path, 1))
              /\ path[1] = 1 =>
                    /\ last.err = ""
                    /\ last.val = ValueOf(Append(path, 1))
    /\ ~Has(closure, RETURN_VAL)
    /\ \A id \in 1..Len(heap) : ~Has(heap[id].fields, RETURN_VAL)
    /\ \A k \in 1..Len(last.frames) : ~Has(last.frames[k].scope, RETURN_VAL)
    /\ \A x \in 1..Len(last.exits) :
          Has(last.exits[x].scope, RETURN_VAL) => Returned(last.exits[x].frame)

\* a Return two nodes deep under the MethodBody executed in the method the
\* root statement called, a Compound around it has a statement after it,
\* and the call yielded the value returned
C3_Witness ==
    /\ last.ran
    /\ last.err = ""
    /\ last.val = Number(1)
    /\ \E i \in ReturnsDone :
          LET path == last.done[i].path
          IN  /\ path[1] = 1
              /\ Len(path) >= 4
              /\ \E n \in 1..(Len(path) - 1) :
                    /\ NodeAt(SubSeq(path, 1, n)).k = "Compound"
                    /\ Len(NodeAt(SubSeq(path, 1, n)).kids) > path[n + 1]
              /\ \E n \in 1..(Len(path) - 1) :
                    NodeAt(SubSeq(path, 1, n)).k = "IfElse"

\* C4: Or and And execute the left operand first; when it is true Or does
\* not execute the right operand, and when it is not true And does not:
\* nothing the right operand does or throws happens; otherwise the right
\* operand is executed; every result is a Bool.  (The left operands of the
\* programs leave the scope and the heap alone.)
C4_ShortCircuit ==
    (last.ran /\ last.stmt.k \in {"Or", "And"}) =>
        /\ Len(last.entered) >= 2
        /\ last.entered[1] = <<0>>
        /\ last.entered[2] = <<0, 1>>
        /\ last.err = "" => last.val.k = "Bool"
        /\ Finished(<<0, 1>>) =>
              IF IsTrue(ValueOf(<<0, 1>>)) = (last.stmt.k = "Or")
              THEN /\ ~Entered(<<0, 2>>)
                   /\ last.err = ""
                   /\ closure = last.before
                   /\ heap = last.heap0
                   /\ last.val = Bool(last.stmt.k = "Or")
              ELSE /\ Entered(<<0, 2>>)
                   /\ last.err = "" => last.val = Bool(IsTrue(ValueOf(<<0, 2>>)))

\* Or with a true left operand and a right operand that would throw
C4_Witness ==
    /\ last.ran
    /\ last.stmt.k = "Or"
    /\ last.stmt.kids[2] = V("u")
    /\ Finished(<<0, 1>>)
    /\ IsTrue(ValueOf(<<0, 1>>))
    /\ last.val = Bool(TRUE)

\* the receiver of the call the root statement makes
Receiver == IF last.stmt.k = "MethodCall" THEN <<0, 1>> ELSE <<0, 1, 1>>

\* C7: in every activation that ClassInstance::Call makes on an instance,
\* self in the activation scope is the non-owning handle of that very
\* instance, whatever the parameters are called and whatever the arguments
\* are; the instance is the receiver of the call, and a mention of self in
\* the body yields that handle.
C7_SelfIsReceiver ==
    /\ \A k \in 1..Len(last.frames) :
          /\ Has(last.frames[k].scope, "self")
          /\ last.frames[k].scope["self"] = Share(last.frames[k].inst)
          /\ ~last.frames[k].scope["self"].own
          /\ last.frames[k].inst = ValueOf(Receiver).num
    /\ \A i \in 1..Len(last.done) :
          LET path == last.done[i].path
          IN  (path[1] >= 1 /\ NodeAt(path) = V("self")) =>
                  last.done[i].val = Share(last.frames[path[1]].inst)

\* m has a parameter called self, was called with an argument that is not
\* the receiver, and returned
C7_Witness ==
    /\ last.ran
    /\ last.err = ""
    /\ Len(last.frames) >= 1
    /\ last.frames[1].method = "m"
    /\ \E j \in 1..Len(last.frames[1].actual_args) :
          /\ classes["A"].methods[1].formal_params[j] = "self"
          /\ last.frames[1].actual_args[j].k /= "ClassInstance"
    /\ last.frames[1].scope["self"] = Share(1)

\* C8: a MethodCall whose receiver evaluated to something that is not a
\* class instance ends in a runtime error that is reported, and dispatches
\* no method.
C8_NonInstanceReceiverReported ==
    (/\ last.ran
     /\ last.stmt.k = "MethodCall"
     /\ Finished(<<0, 1>>)
     /\ ValueOf(<<0, 1>>).k /= "ClassInstance")
        => (last.err \in RuntimeErrors /\ last.frames = <<>>)

\* the path of an arg of the NewInstance that a root Assignment holds
IsArgPath(path) == Len(path) = 3 /\ path[1] = 0 /\ path[2] = 1

\* C10: NewInstance allocates a fresh instance of the class and looks up
\* __init__ along the chain of parents.  When the method found takes as
\* many parameters as there are args, the args are evaluated left to
\* right, __init__ is called on the fresh instance with their values, and
\* the result is what __init__ returned unless that is None, and the fresh
\* instance then.  When there is no __init__ or it takes another number of
\* parameters, the fresh instance is the result, no arg is evaluated and
\* no error is raised.
C10_NewInstance ==
    (last.ran /\ last.stmt.k = "Assignment" /\ last.stmt.kids[1].k = "NewInstance") =>
        LET class_ == last.stmt.kids[1].names[1]
            args_ == last.stmt.kids[1].kids
            id == Len(last.heap0) + 1
            method == GetMethod(class_, INIT_METHOD)
        IN  /\ Len(heap) >= id
            /\ heap[id].cls = class_
            /\ \A i \in 1..Len(last.heap0) : heap[i] = last.heap0[i]
            /\ IF method /= NoMethod /\ Len(method.formal_params) = Len(args_)
               THEN last.err = "" =>
                       /\ SelectSeq(last.entered, IsArgPath)
                             = [i \in 1..Len(args_) |-> <<0, 1, i>>]
                       /\ Len(last.frames) = 1
                       /\ last.frames[1].inst = id
                       /\ last.frames[1].method = INIT_METHOD
                       /\ last.frames[1].body = method.body
                       /\ last.frames[1].actual_args
                             = [i \in 1..Len(args_) |-> ValueOf(<<0, 1, i>>)]
                       /\ \A a, b \in 1..Len(last.entered) :
                             (IsArgPath(last.entered[a]) /\ last.entered[b][1] = 1)
                                 => a < b
                       /\ last.val = IF last.exits[1].ret /= None
                                     THEN last.exits[1].ret ELSE Own(id)
                       /\ closure["o"] = last.val
               ELSE /\ last.err = ""
                    /\ last.val = Own(id)
                    /\ \A i \in 1..Len(args_) : ~Entered(<<0, 1, i>>)
                    /\ last.frames = <<>>
                    /\ closure = Set(last.before, "o", Own(id))
                    /\ Len(heap) = id

\* D(t, y = x): __init__ takes the two args and returns the first
C10_Witness ==
    /\ last.ran
    /\ last.stmt = Assignment("o", NewInstance("D", <<V("t"), Assignment("y", V("x"))>>))
    /\ last.err = ""
    /\ last.val = Bool(TRUE)
    /\ Len(heap) = 2
    /\ heap[2].fields["a"] = Number(1)

(***************************************************************************)
(* Properties of the comparisons.                                          *)
(***************************************************************************)
\* the comparison was applied and yielded a bool
Defined(name) == Has(cmp.out, name) /\ cmp.out[name].err = ""

\* C11: for operands on which Equal and Less are both defined (two
\* Numbers, two Bools, two Strings, or an instance whose class defines
\* __eq__ and __lt__ of one parameter with bodies that change nothing),
\* GreaterOrEqual is not Less, LessOrEqual is Equal or Less, Greater is
\* neither Equal nor Less, and NotEqual is not Equal.
C11_Derived ==
    (Defined("Equal") /\ Defined("Less")) =>
        /\ Has(cmp.out, "GreaterOrEqual") =>
              /\ Defined("GreaterOrEqual")
              /\ cmp.out["GreaterOrEqual"].b = ~cmp.out["Less"].b
        /\ Has(cmp.out, "LessOrEqual") =>
              /\ Defined("LessOrEqual")
              /\ cmp.out["LessOrEqual"].b
                    = (cmp.out["Equal"].b \/ cmp.out["Less"].b)
        /\ Has(cmp.out, "Greater") =>
              /\ Defined("Greater")
              /\ cmp.out["Greater"].b
                    = (~cmp.out["Equal"].b /\ ~cmp.out["Less"].b)
        /\ Has(cmp.out, "NotEqual") =>
              /\ Defined("NotEqual")
              /\ cmp.out["NotEqual"].b = ~cmp.out["Equal"].b

\* every comparison applied to an instance of A and a Bool, __eq__ and
\* __lt__ called: Less holds of them, Equal does not
C11_Witness ==
    /\ DOMAIN cmp.out = Comparisons
    /\ cmp.lhs = Own(1)
    /\ cmp.rhs.k = "Bool"
    /\ Defined("Equal")
    /\ Defined("Less")
    /\ ~cmp.out["Equal"].b
    /\ cmp.out["Less"].b
    /\ cmp.out["LessOrEqual"].b

(***************************************************************************)
(* Properties of LoadNumber.                                               *)
(***************************************************************************)
\* the digits the text begins with
RECURSIVE DigitRun(_)
DigitRun(w) ==
    IF w /= <<>> /\ IsDigit(Head(w)) THEN <<Head(w)>> \o DigitRun(Tail(w))
    ELSE <<>>

\* a numeral without the zeros it begins with
RECURSIVE Stripped(_)
Stripped(w) == IF Len(w) > 1 /\ Head(w) = "0" THEN Stripped(Tail(w)) ELSE w

\* of two numerals of one length the first is the greater
RECURSIVE Above(_, _)
Above(v, w) ==
    /\ v /= <<>>
    /\ \/ DigitVal(Head(v)) > DigitVal(Head(w))
       \/ Head(v) = Head(w) /\ Above(Tail(v), Tail(w))

\* the value of the numeral v exceeds that of w, neither beginning with 0
Exceeds(v, w) == Len(v) > Len(w) \/ (Len(v) = Len(w) /\ Above(v, w))

\* the decimal numeral of a natural number
RECURSIVE NumeralOf(_)
NumeralOf(n) ==
    IF n < 10 THEN <<CHOOSE c \in Digits : DigitVal(c) = n>>
    ELSE NumeralOf(n \div 10) \o <<CHOOSE c \in Digits : DigitVal(c) = n % 10>>

\* C12: a maximal run of digits is lexed as one Number token carrying its
\* value as a signed 64-bit integer: when the value is at most 2^63-1 the
\* lex yields a Number with exactly that value, and when it is greater the
\* lex fails with a LexerError.
C12_NumberIsI64 ==
    (pc \in {"done", "error"} /\ DigitRun(text) /= <<>>) =>
        IF Exceeds(Stripped(DigitRun(text)), I64_MAX_DIGITS)
        THEN pc = "error" /\ err /= "" /\ tokens_ = <<>>
        ELSE /\ tokens_ /= <<>>
             /\ tokens_[1].type = "Number"
             /\ NumeralOf(tokens_[1].num) = Stripped(DigitRun(text))
             /\ Len(tokens_) >= 2 =>
                   (tokens_[2].type = "Number" => Len(DigitRun(text)) + 2 = Len(text))

(***************************************************************************)
(* Properties of the indentation.                                          *)
(***************************************************************************)
\* the level after the tokens toks
Level(toks) == Count(toks, "Indent") - Count(toks, "Dedent")

\* the place in the text of the j-th ':'
ColonAt(j) ==
    CHOOSE i \in 1..Len(text) :
        text[i] = ":" /\ Cardinality({h \in 1..i : text[h] = ":"}) = j

\* the spaces before the ':' at place i, back to the start of its line
LeadingSpaces(i) ==
    Cardinality({h \in 1..(i - 1) : \A g \in h..(i - 1) : text[g] = SP})

\* the place in tokens_ of the last Newline before place q
NewlineBefore(q) ==
    CHOOSE n \in 1..(q - 1) :
        /\ tokens_[n].type = "Newline"
        /\ \A h \in (n + 1)..(q - 1) : tokens_[h].type /= "Newline"

\* what the lexer emits between the Newline and the first token of a line
\* of 2k spaces at level m, when the rule says it
Emitted(k, m) ==
    IF k = m + 1 THEN <<Tok("Indent")>> ELSE Repeat(Tok("Dedent"), m - k)

\* C13: two spaces are one level: before the first token of a line that
\* follows a Newline and begins with 2k spaces, the level being m, the
\* lexer emits exactly one Indent when k = m+1, exactly m-k Dedent when
\* k < m, neither when k = m, and the level is k afterwards; the end of the
\* input after a final newline is a line with k = 0.
C13_TwoSpacesPerLevel ==
    Lexed =>
        /\ \A q \in 1..Len(tokens_) :
              (/\ tokens_[q].type = "Char"
               /\ \E n \in 1..(q - 1) : tokens_[n].type = "Newline") =>
                  LET n == NewlineBefore(q)
                      m == Level(SubSeq(tokens_, 1, n))
                      spaces == LeadingSpaces(ColonAt(Count(SubSeq(tokens_, 1, q), "Char")))
                  IN  (spaces % 2 = 0 /\ spaces \div 2 <= m + 1) =>
                          /\ SubSeq(tokens_, n + 1, q - 1) = Emitted(spaces \div 2, m)
                          /\ Level(SubSeq(tokens_, 1, q)) = spaces \div 2
        /\ (text /= <<>> /\ text[Len(text)] = NL /\ Count(tokens_, "Newline") > 0) =>
              LET n == NewlineBefore(Len(tokens_))
              IN  SubSeq(tokens_, n + 1, Len(tokens_) - 1)
                      = Emitted(0, Level(SubSeq(tokens_, 1, n)))

(***************************************************************************)
(* Reads of dotted names.                                                  *)
(***************************************************************************)
\* the statement that ran last is a read of a dotted name
DottedRead ==
    /\ last.ran
    /\ last.stmt.k = "VariableValue"
    /\ Len(last.stmt.names) >= 2

\* what the first n names of ids named before the read; a field that the
\* instance did not have, and a field of what is no instance, name None
RECURSIVE Named(_, _)
Named(ids, n) ==
    IF n = 1
    THEN IF Has(last.before, ids[1]) THEN last.before[ids[1]] ELSE None
    ELSE LET object == Named(ids, n - 1)
         IN  IF /\ object.k = "ClassInstance"
                /\ Has(last.heap0[object.num].fields, ids[n])
             THEN last.heap0[object.num].fields[ids[n]]
             ELSE None

\* every name of ids before the last named a class instance
InstancesUpTo(ids, n) ==
    /\ Has(last.before, ids[1])
    /\ \A i \in 1..n : Named(ids, i).k = "ClassInstance"

\* the last name of ids is a field that the instance it is read from lacked
MissingField(ids) ==
    /\ InstancesUpTo(ids, Len(ids) - 1)
    /\ ~Has(last.heap0[Named(ids, Len(ids) - 1).num].fields, ids[Len(ids)])

\* C14: the read of a dotted name throws only when its first name is not in
\* the scope or a value before the last name is no class instance; the read
\* of a field that the instance does not have throws nothing, yields None
\* and leaves that field, bound to None, in the field map of the instance,
\* which the read has thereby changed
C14_ReadInsertsField ==
    DottedRead =>
        LET ids == last.stmt.names
            owner == Named(ids, Len(ids) - 1).num
        IN  /\ last.err /= "" =>
                \/ ~Has(last.before, ids[1]) /\ last.err = "there is no variable"
                \/ /\ ~InstancesUpTo(ids, Len(ids) - 1)
                   /\ last.err = "object is not ClassInstance"
            /\ MissingField(ids) =>
                /\ last.err = ""
                /\ last.val = None
                /\ Has(heap[owner].fields, ids[Len(ids)])
                /\ heap[owner].fields[ids[Len(ids)]] = None
                /\ heap /= last.heap0
                /\ closure = last.before

\* a read through two instances of a field that the second one lacked
C14_Witness ==
    /\ DottedRead
    /\ Len(last.stmt.names) = 3
    /\ MissingField(last.stmt.names)
    /\ last.err = ""
    /\ heap /= last.heap0

=============================================================================
